---- MODULE Spec2Model ----
(***************************************************************************)
(* Model of panoptic_mapping_utils' MapEvaluator (map_evaluator.cpp / .h). *)
(*                                                                         *)
(* Abstractions.                                                           *)
(*  - Space is one-dimensional: a point is an integer position.            *)
(*  - Lengths are integers in units of 0.1 m, so the default               *)
(*    maximum_distance 0.2 is 2 and the default inlier_distance 0.1 is 1.  *)
(*  - Floats are exact: a statistic is the rational num/den, or its        *)
(*    square root when root is TRUE.                                       *)
(*  - A string written to the summary file is the sequence of its          *)
(*    comma-separated fields, a field being the sequence of the tokens     *)
(*    written into it; the empty string is the one empty field.            *)
(*  - A path is a sequence of symbols; "/" and "." are the two separators  *)
(*    and every other symbol stands for one character.                     *)
(***************************************************************************)
EXTENDS Integers, Sequences, FiniteSets, TLC

\* ------------------------------------------------------------------ bounds
MaxDist == 3        \* largest |distance| the map answers
MaxPts == 3         \* longest freely chosen ground-truth cloud
MaxSubmaps == 2     \* most submaps of a freely chosen collection
MaxCalls == 3       \* most calls made on one evaluator
MaxCells == 3       \* most cells of a coverage grid row
MaxId == 2          \* largest instance or class id of a label map

\* ------------------------------------------------------- program constants
ProgressDivisor == 100          \* interval = size / 100
DefaultMaximumDistance == 2     \* float maximum_distance = 0.2
DefaultInlierDistance == 1      \* float inlier_distance = 0.1

\* a null pointer, and a pointer to the value v
NullPtr == [null |-> TRUE]

Ptr(v) == [null |-> FALSE, val |-> v]

Abs(x) == IF x < 0 THEN -x ELSE x

\* ----------------------------------------------------------------- strings
EmptyString == << <<>> >>

Comma == << <<>>, <<>> >>

\* a << b on strings: the last field of a runs on into the first field of b
Concat(a, b) ==
  SubSeq(a, 1, Len(a) - 1) \o <<a[Len(a)] \o b[1]>> \o Tail(b)

\* ------------------------------------------------------------------- paths
\* std::string::npos, the largest size_t: -1 modulo 2^64
Npos == 0 - 1

\* find_last_of(c): the 0-based position of the last c, Npos when there is none
RECURSIVE LastFrom(_, _, _)
LastFrom(str, c, i) ==
  IF i = 0 THEN Npos
  ELSE IF str[i] = c THEN i - 1
  ELSE LastFrom(str, c, i - 1)

FindLastOf(str, c) == LastFrom(str, c, Len(str))

\* substr(pos, count) throws std::out_of_range when pos > size(); Npos, as a
\* position, is greater than every size
SubstrThrows(str, pos) == pos = Npos \/ pos > Len(str)

\* substr(pos, count) when it does not throw; a count that is Npos or that
\* wrapped below zero is larger than every size and reaches the end
Substr(str, pos, count) ==
  IF count < 0 \/ pos + count > Len(str) THEN SubSeq(str, pos + 1, Len(str))
  ELSE SubSeq(str, pos + 1, pos + count)

\* separator + 1 on size_t: Npos + 1 wraps to 0
AfterSeparator(separator) == separator + 1

\* the target_map_name_ computed from a path whose last '.' exists
MapNameOf(path) ==
  LET extension == Substr(path, FindLastOf(path, "."), Npos)
      separator == FindLastOf(path, "/")
  IN  Substr(path, AfterSeparator(separator),
             Len(path) - separator - Len(extension) - 1)

\* ------------------------------------------------------------- statistics
Rat(n, d, r) == [num |-> n, den |-> d, root |-> r]

IsZero(v) == v.num = 0

\* the sum of the elements lo..hi of s, as the sum over the first half plus
\* the sum over the second
RECURSIVE SumOver(_, _, _)
SumOver(s, lo, hi) ==
  IF lo > hi THEN 0
  ELSE IF lo = hi THEN s[lo]
  ELSE LET mid == (lo + hi) \div 2
       IN  SumOver(s, lo, mid) + SumOver(s, mid + 1, hi)

SumSeq(s) == SumOver(s, 1, Len(s))

SumSqSeq(s) == SumOver([i \in 1..Len(s) |-> s[i] * s[i]], 1, Len(s))

\* sum over v of (v - sum/n)^2, times n^2
SumSqDev(s, sum, n) ==
  SumOver([i \in 1..Len(s) |-> (n * s[i] - sum) * (n * s[i] - sum)], 1, Len(s))

\* mean /= size, under the !empty() guard
MeanOf(samples) ==
  IF samples # <<>> THEN Rat(SumSeq(samples), Len(samples), FALSE)
  ELSE Rat(0, 1, FALSE)

\* rmse = sqrt(rmse / size), under the !empty() guard
RmseOf(samples) ==
  IF samples # <<>> THEN Rat(SumSqSeq(samples), Len(samples), TRUE)
  ELSE Rat(0, 1, FALSE)

\* stddev accumulates the squared deviations for every size and is
\* normalised (divided by size-1, square root) only when size > 2
StddevGuard(n) == n > 2

StddevOf(samples) ==
  LET n == Len(samples)
      acc == SumSqDev(samples, SumSeq(samples), n)
  IN  IF StddevGuard(n) THEN Rat(acc, n * n * (n - 1), TRUE)
      ELSE IF n = 0 THEN Rat(0, 1, FALSE)
      ELSE Rat(acc, n * n, FALSE)

\* --------------------------------------------------------------- requests
\* the EvaluationRequest a default-constructed MapEvaluator holds
DefaultRequest ==
  [map_file |-> <<>>,
   ground_truth_pointcloud_file |-> "gt_default",
   output_suffix |-> <<"evaluation_data">>,
   maximum_distance |-> DefaultMaximumDistance,
   inlier_distance |-> DefaultInlierDistance,
   visualize |-> TRUE,
   evaluate |-> TRUE,
   compute_coloring |-> FALSE,
   ignore_truncated_points |-> FALSE,
   color_by_max_error |-> FALSE,
   color_by_mesh_distance |-> TRUE,
   is_single_tsdf |-> FALSE,
   export_mesh |-> FALSE,
   export_labeled_pointcloud |-> FALSE,
   export_coverage_pointcloud |-> FALSE]

\* checkParams with the test of inlier_distance left out
IsValidMaximumOnly(request) == request.maximum_distance > 0

\* checkParams: both thresholds must be greater than 0
IsValid(request) ==
  request.maximum_distance > 0 /\ request.inlier_distance > 0

\* -------------------------------------------------- reconstruction pass
Unobserved == [observed |-> FALSE, distance |-> 0]

Observed(d) == [observed |-> TRUE, distance |-> d]

ReconInit ==
  [total_points |-> 0, unknown_points |-> 0, truncated_points |-> 0,
   inliers |-> 0, abserror |-> <<>>, count |-> 0, faulted |-> FALSE]

\* the threshold the inlier test reads: the member request_, not the argument
InlierThreshold(request, member) == member.inlier_distance

\* TruncatedSample keeping the raw value
TruncatedSampleRaw(request, distance) == Abs(distance)

\* the sample a truncated point contributes
TruncatedSample(request, distance) == request.maximum_distance

\* ReconPoint with the unknown points left uncounted
ReconPointNoUnknown(acc, ans, request, member) ==
  LET a1 == [acc EXCEPT !.total_points = @ + 1]
  IN  IF ans.observed
      THEN LET d == Abs(ans.distance)
               a2 == IF d > request.maximum_distance
                     THEN [a1 EXCEPT
                             !.truncated_points = @ + 1,
                             !.abserror =
                               IF ~request.ignore_truncated_points
                               THEN Append(@, TruncatedSample(request, ans.distance))
                               ELSE @]
                     ELSE [a1 EXCEPT !.abserror = Append(@, d)]
           IN  IF d <= InlierThreshold(request, member)
               THEN [a2 EXCEPT !.inliers = @ + 1]
               ELSE a2
      ELSE a1

\* ReconPoint with truncated_points counted only for the retained samples
ReconPointCountRetained(acc, ans, request, member) ==
  LET a1 == [acc EXCEPT !.total_points = @ + 1]
  IN  IF ans.observed
      THEN LET d == Abs(ans.distance)
               a2 == IF d > request.maximum_distance
                     THEN IF ~request.ignore_truncated_points
                          THEN [a1 EXCEPT
                                  !.truncated_points = @ + 1,
                                  !.abserror =
                                    Append(@, TruncatedSample(request, ans.distance))]
                          ELSE a1
                     ELSE [a1 EXCEPT !.abserror = Append(@, d)]
           IN  IF d <= InlierThreshold(request, member)
               THEN [a2 EXCEPT !.inliers = @ + 1]
               ELSE a2
      ELSE [a1 EXCEPT !.unknown_points = @ + 1]

\* the body of the loop over the ground-truth points, without the progress bar
ReconPoint(acc, ans, request, member) ==
  LET a1 == [acc EXCEPT !.total_points = @ + 1]
  IN  IF ans.observed
      THEN LET d == Abs(ans.distance)
               a2 == IF d > request.maximum_distance
                     THEN [a1 EXCEPT
                             !.truncated_points = @ + 1,
                             !.abserror =
                               IF ~request.ignore_truncated_points
                               THEN Append(@, TruncatedSample(request, ans.distance))
                               ELSE @]
                     ELSE [a1 EXCEPT !.abserror = Append(@, d)]
           IN  IF d <= InlierThreshold(request, member)
               THEN [a2 EXCEPT !.inliers = @ + 1]
               ELSE a2
      ELSE [a1 EXCEPT !.unknown_points = @ + 1]

\* count % interval: an integer division by zero when interval is 0. The
\* build either traps there ("trap") or yields some value ("none").
ProgressFaults(interval, onzero) == interval = 0 /\ onzero = "trap"

\* one turn of the loop: the point, then the progress bar; nothing runs
\* after a fault
ReconTurn(acc, cloud, i, lookup, request, member, onzero) ==
  IF acc.faulted THEN acc
  ELSE LET a == ReconPoint(acc, lookup[cloud[i]], request, member)
       IN  IF ProgressFaults(Len(cloud) \div ProgressDivisor, onzero)
           THEN [a EXCEPT !.faulted = TRUE]
           ELSE [a EXCEPT !.count = @ + 1]

\* the turns for the points lo..hi in their order, as the turns of the first
\* half followed by the turns of the second
RECURSIVE ReconLoop(_, _, _, _, _, _, _, _)
ReconLoop(acc, cloud, lo, hi, lookup, request, member, onzero) ==
  IF lo > hi THEN acc
  ELSE IF lo = hi
  THEN ReconTurn(acc, cloud, lo, lookup, request, member, onzero)
  ELSE LET mid == (lo + hi) \div 2
           first == ReconLoop(acc, cloud, lo, mid, lookup, request, member,
                              onzero)
       IN  IF first.faulted THEN first
           ELSE ReconLoop(first, cloud, mid + 1, hi, lookup, request, member,
                          onzero)

\* the "mean,stddev,rmse,total,unknown,truncated,inliers" string
ReconString(acc) ==
  << <<MeanOf(acc.abserror)>>, <<StddevOf(acc.abserror)>>,
     <<RmseOf(acc.abserror)>>, <<acc.total_points>>, <<acc.unknown_points>>,
     <<acc.truncated_points>>, <<acc.inliers>> >>

computeReconstructionError(request, member, cloud, lookup, onzero) ==
  LET acc == ReconLoop(ReconInit, cloud, 1, Len(cloud), lookup, request,
                       member, onzero)
  IN  [faulted |-> acc.faulted,
       total_points |-> acc.total_points,
       unknown_points |-> acc.unknown_points,
       truncated_points |-> acc.truncated_points,
       inliers |-> acc.inliers,
       abserror |-> acc.abserror,
       str |-> IF acc.faulted THEN EmptyString ELSE ReconString(acc)]

\* ------------------------------------------------------------- spatial index
\* knnSearch(query, 1, ...): the nearest point of the index, none when the
\* index holds no point
\* the nearest of the points lo..hi to q, the first of them on a tie
RECURSIVE NearestFrom(_, _, _, _)
NearestFrom(points, q, lo, hi) ==
  IF lo = hi THEN lo
  ELSE LET mid == (lo + hi) \div 2
           first == NearestFrom(points, q, lo, mid)
           second == NearestFrom(points, q, mid + 1, hi)
       IN  IF Abs(points[second] - q) < Abs(points[first] - q) THEN second
           ELSE first

\* the ground-truth cloud of ProgressDivisor points: the positions 0..4, over
\* and over
LargeCloud == [i \in 1..ProgressDivisor |-> (i - 1) % 5]

\* the nearest point of LargeCloud to each position a mesh vertex is at,
\* worked out once
LargeCloudNearest ==
  {[q |-> q, ret_index |-> NearestFrom(LargeCloud, q, 1, Len(LargeCloud))] :
     q \in 0..5}

knnSearch1(points, q) ==
  IF points = <<>> THEN [num_results |-> 0, ret_index |-> 0]
  ELSE IF points = LargeCloud /\ q \in 0..5
  THEN [num_results |-> 1,
        ret_index |-> (CHOOSE p \in LargeCloudNearest : p.q = q).ret_index]
  ELSE [num_results |-> 1, ret_index |-> NearestFrom(points, q, 1, Len(points))]

\* ------------------------------------------------------------------ mesh pass
MeshInit ==
  [inliers |-> 0, outliers |-> 0, errors |-> <<>>, owners |-> <<>>,
   queried |-> <<>>, checks |-> 0, aborted |-> FALSE]

\* MeshSkips with the rule of the colouring pass, which keeps the persistent
\* submaps only
MeshSkipsNotPersistent(request, submap) ==
  /\ ~request.is_single_tsdf
  /\ \/ submap.label = "kFreeSpace"
     \/ submap.change_state # "kPersistent"

\* the submaps computeMeshError skips
MeshSkips(request, submap) ==
  /\ ~request.is_single_tsdf
  /\ \/ submap.label = "kFreeSpace"
     \/ submap.change_state = "kAbsent"
     \/ submap.change_state = "kUnobserved"

\* MeshCounts without the test of num_results
MeshCountsAlways(num_results) == TRUE

\* whether a k=1 query with this many results adds a sample
MeshCounts(num_results) == num_results # 0

\* one mesh vertex. queried records the owner of every vertex looked up and
\* owners the owner of every sample in errors. (The error of a query without
\* a result is never computed by the code; 0 stands for it.)
MeshVertex(acc, id, v, points, member) ==
  LET r == knnSearch1(points, v)
      a1 == [acc EXCEPT !.queried = Append(@, id)]
  IN  IF MeshCounts(r.num_results)
      THEN LET error == IF r.num_results = 0 THEN 0
                        ELSE Abs(points[r.ret_index] - v)
               a2 == [a1 EXCEPT !.errors = Append(@, error),
                                !.owners = Append(@, id)]
           IN  IF error <= member.inlier_distance
               THEN [a2 EXCEPT !.inliers = @ + 1]
               ELSE [a2 EXCEPT !.outliers = @ + 1]
      ELSE a1

RECURSIVE MeshVertices(_, _, _, _, _, _)
MeshVertices(acc, id, vertices, i, points, member) ==
  IF i > Len(vertices) THEN acc
  ELSE MeshVertices(MeshVertex(acc, id, vertices[i], points, member),
                    id, vertices, i + 1, points, member)

\* the loop over the blocks of one submap; ros::ok() answers TRUE on its
\* first okCount calls and FALSE from then on (okCount < 0: always TRUE)
RosOk(checks, okCount) == okCount < 0 \/ checks < okCount

RECURSIVE MeshBlocks(_, _, _, _, _, _)
MeshBlocks(acc, submap, b, points, member, okCount) ==
  IF b > Len(submap.mesh) THEN acc
  ELSE IF ~RosOk(acc.checks, okCount) THEN [acc EXCEPT !.aborted = TRUE]
  ELSE MeshBlocks(
         MeshVertices([acc EXCEPT !.checks = @ + 1], submap.id,
                      submap.mesh[b], 1, points, member),
         submap, b + 1, points, member, okCount)

RECURSIVE MeshSubmaps(_, _, _, _, _, _, _)
MeshSubmaps(acc, submaps, s, request, points, member, okCount) ==
  IF s > Len(submaps) \/ acc.aborted THEN acc
  ELSE IF MeshSkips(request, submaps[s])
  THEN MeshSubmaps(acc, submaps, s + 1, request, points, member, okCount)
  ELSE MeshSubmaps(MeshBlocks(acc, submaps[s], 1, points, member, okCount),
                   submaps, s + 1, request, points, member, okCount)

\* the "mean,stddev,rmse,inliers,outliers" string
MeshString(acc) ==
  << <<MeanOf(acc.errors)>>, <<StddevOf(acc.errors)>>, <<RmseOf(acc.errors)>>,
     <<acc.inliers>>, <<acc.outliers>> >>

computeMeshError(request, member, submaps, points, okCount) ==
  LET acc == MeshSubmaps(MeshInit, submaps, 1, request, points, member, okCount)
  IN  [aborted |-> acc.aborted,
       inliers |-> acc.inliers,
       outliers |-> acc.outliers,
       errors |-> acc.errors,
       owners |-> acc.owners,
       queried |-> acc.queried,
       checks |-> acc.checks,
       str |-> IF acc.aborted THEN EmptyString ELSE MeshString(acc)]

\* =========================================================================
\* Environment: the files the evaluator can be pointed at
\* =========================================================================
\* ground-truth files: a unit square of 4 points, a cloud of ProgressDivisor
\* points, and names no cloud can be loaded from
SquareCloud == <<0, 1, 2, 3>>

\* pcl::io::loadPLYFile
LoadPLY(name) ==
  CASE name = "gt_square" -> [ok |-> TRUE, cloud |-> SquareCloud]
    [] name = "gt_large" -> [ok |-> TRUE, cloud |-> LargeCloud]
    [] OTHER -> [ok |-> FALSE, cloud |-> <<>>]

\* a multi-submap map: what the file holds and what getDistance answers at
\* each position for (consider_classification, single field) = (true, false)
\* and (false, true)
StoredCollection ==
  [submaps |->
     << [id |-> 0, label |-> "kFreeSpace", change_state |-> "kPersistent",
         mesh |-> << <<0, 4>> >>],
        [id |-> 1, label |-> "kInstance", change_state |-> "kNew",
         mesh |-> << <<1>>, <<5>> >>],
        [id |-> 2, label |-> "kBackground", change_state |-> "kAbsent",
         mesh |-> << <<2>> >>] >>,
   dist_classified |->
     [p \in 0..4 |-> CASE p = 0 -> Observed(0)
                       [] p = 1 -> Observed(0 - 2)
                       [] p = 2 -> Unobserved
                       [] p = 3 -> Observed(3)
                       [] OTHER -> Observed(1)],
   dist_single |->
     [p \in 0..4 |-> IF p = 2 THEN Observed(1) ELSE Observed(0)]]

\* a single dense field: distance 0 at the four corners of the square and
\* 0.3 at a fifth point
StoredLayer ==
  [dist |-> [p \in 0..4 |-> IF p = 4 THEN Observed(3) ELSE Observed(0)]]

PanmapPath == <<"d", "/", "a", ".", "panmap">>

MissingPanmapPath == <<"d", "/", "b", ".", "panmap">>

VxblxPath == <<"d", "/", "v", ".", "vxblx">>

MissingVxblxPath == <<"d", "/", "w", ".", "vxblx">>

NoDotPath == <<"d", "/", "n">>

TxtPath == <<"d", "/", "t", ".", "txt">>

MapPaths ==
  {<<>>, PanmapPath, MissingPanmapPath, VxblxPath, MissingVxblxPath,
   NoDotPath, TxtPath}

\* SubmapCollection::loadFromFile: the file is read whatever its name is
LoadCollection(path) ==
  IF path \in {PanmapPath, NoDotPath}
  THEN [ok |-> TRUE, collection |-> StoredCollection]
  ELSE [ok |-> FALSE, collection |-> StoredCollection]

\* voxblox::io::LoadLayer: the layer pointer is written on success only
LoadLayer(path) == [ok |-> path = VxblxPath, layer |-> StoredLayer]

\* ---------------------------------------------------------- output stream
ClosedStream == [is_open |-> FALSE, fail |-> FALSE, path |-> <<>>]

\* ofstream::open(path, ios::out): fails and sets failbit on a stream that is
\* already open (which stays open on its old file) and when the file cannot
\* be created; success clears the state and truncates the file
StreamOpen(stream, path, openOk) ==
  IF stream.is_open THEN [stream EXCEPT !.fail = TRUE]
  ELSE IF openOk THEN [is_open |-> TRUE, fail |-> FALSE, path |-> path]
  ELSE [stream EXCEPT !.fail = TRUE]

\* whether that open() opened the file
OpenOutcome(stream, openOk) ==
  IF ~stream.is_open /\ openOk THEN "ok" ELSE "failed"

DiskOpen(stream, files, path, openOk) ==
  IF ~stream.is_open /\ openOk
  THEN [q \in DOMAIN files \cup {path} |->
          IF q = path THEN <<EmptyString>> ELSE files[q]]
  ELSE files

\* what a file holds: its lines, the last one being the line still open
Writable(stream) == stream.is_open /\ ~stream.fail

\* stream << str
DiskWrite(stream, files, str) ==
  IF Writable(stream)
  THEN [files EXCEPT ![stream.path] =
          SubSeq(@, 1, Len(@) - 1) \o <<Concat(@[Len(@)], str)>>]
  ELSE files

\* stream << "\n"
DiskNewline(stream, files) ==
  IF Writable(stream)
  THEN [files EXCEPT ![stream.path] = Append(@, EmptyString)]
  ELSE files

\* a write to a stream that is not open sets its error state
StreamWrite(stream) ==
  IF stream.is_open THEN stream ELSE [stream EXCEPT !.fail = TRUE]

StreamClose(stream) ==
  IF stream.is_open THEN [stream EXCEPT !.is_open = FALSE]
  ELSE [stream EXCEPT !.fail = TRUE]

\* the header evaluate() writes
SingleHeader ==
  << <<"MeanError [m]">>, <<"StdError [m]">>, <<"RMSE [m]">>,
     <<"TotalPoints [1]">>, <<"UnknownPoints [1]">>,
     <<"TruncatedPoints [1]">> >>

\* the header setupMultiMapEvaluation() writes, up to its "\n"
MultiHeader ==
  << <<"MeanGTError [m]">>, <<"StdGTError [m]">>, <<"GTRMSE [m]">>,
     <<"TotalPoints [1]">>, <<"UnknownPoints [1]">>,
     <<"TruncatedPoints [1]">>, <<"GTInliers [1]">>, <<"MeanMapError [m]">>,
     <<"StdMapError [m]">>, <<"MapRMSE[m]">>, <<"MapInliers[1]">>,
     <<"MapOutliers[1]">> >>

\* the " " that follows the newline of that header
Space == << <<" ">> >>

\* =========================================================================
\* State
\* =========================================================================
VARIABLES
  request_,            \* the request held for the evaluation service
  gt_cloud_ptr_,       \* the ground-truth cloud
  kdtree_data_,        \* the points the spatial index was built from
  gt_voxel_grid_ptr_,  \* the cloud the coverage grid was built from
  submaps_,            \* the loaded submap collection
  voxblox_,            \* the loaded single dense field
  use_voxblox_,
  planning_,           \* the collection the PlanningInterface queries
  target_directory_,
  target_map_name_,
  output_file_,        \* the summary stream
  disk,                \* the summary files written, by path
  process_map_srv_,    \* whether the evaluation service is advertised
  ret,                 \* the outcome of the latest call
  calls,               \* the number of calls made on the evaluator so far
  divzero,             \* what this build does on an integer division by
                       \* zero: "trap", or "none" when some value results
  arg,                 \* the inputs of the pass under study
  runs,                \* the passes executed on arg so far, oldest first
  is_setup_,           \* SingleTSDFTracker: whether setup() has run
  map_id_,             \* SingleTSDFTracker: the id of the single map
  tracked,             \* the submap collection the tracker is called with
  processed            \* the processInput calls made so far, oldest first

passVars == <<arg, runs>>

trackerVars == <<is_setup_, map_id_, tracked, processed>>

evaluatorVars ==
  <<request_, gt_cloud_ptr_, kdtree_data_, gt_voxel_grid_ptr_, submaps_,
    voxblox_, use_voxblox_, planning_, target_directory_, target_map_name_,
    output_file_, disk, process_map_srv_, ret, calls>>

vars == <<evaluatorVars, passVars, divzero, trackerVars>>

NoCall ==
  [op |-> "none", result |-> "none", request |-> NullPtr, recon |-> NullPtr,
   mesh |-> NullPtr, ran |-> <<>>, open |-> "none"]

\* a submap collection without submaps and without a free-space submap
EmptyCollection == [submaps |-> <<>>, active_freespace_submap_id |-> -1]

\* no tracker is part of a study of the evaluator or of one pass
TrackerIdle ==
  /\ is_setup_ = FALSE
  /\ map_id_ = -1
  /\ tracked = EmptyCollection
  /\ processed = <<>>

\* the evaluator as the constructor leaves it; use_voxblox_ is not initialised
EvaluatorInit ==
  /\ request_ = DefaultRequest
  /\ gt_cloud_ptr_ = NullPtr
  /\ kdtree_data_ = NullPtr
  /\ gt_voxel_grid_ptr_ = NullPtr
  /\ submaps_ = NullPtr
  /\ voxblox_ = NullPtr
  /\ use_voxblox_ \in BOOLEAN
  /\ planning_ = NullPtr
  /\ target_directory_ = <<>>
  /\ target_map_name_ = <<>>
  /\ output_file_ = ClosedStream
  /\ disk = <<>>
  /\ process_map_srv_ = FALSE
  /\ ret = NoCall
  /\ calls = 0

\* the evaluator is not part of a study of one pass
EvaluatorIdle ==
  /\ request_ = DefaultRequest
  /\ gt_cloud_ptr_ = NullPtr
  /\ kdtree_data_ = NullPtr
  /\ gt_voxel_grid_ptr_ = NullPtr
  /\ submaps_ = NullPtr
  /\ voxblox_ = NullPtr
  /\ use_voxblox_ = FALSE
  /\ planning_ = NullPtr
  /\ target_directory_ = <<>>
  /\ target_map_name_ = <<>>
  /\ output_file_ = ClosedStream
  /\ disk = <<>>
  /\ process_map_srv_ = FALSE
  /\ ret = NoCall
  /\ calls = 0

\* =========================================================================
\* Operations of the evaluator
\* =========================================================================
Alive == ret.result # "fault"

\* computeReconstructionError as a member function: it dereferences
\* gt_cloud_ptr_ and, at the first point, the interpolator's layer or
\* planning_; a null one of these is a fault
ReconFaultsOnNull(gt, usevox, vox, plan) ==
  \/ gt.null
  \/ gt.val # <<>> /\ (IF usevox THEN vox.null ELSE plan.null)

ReconLookup(request, usevox, vox, plan) ==
  IF usevox THEN vox.val.dist
  ELSE IF request.is_single_tsdf THEN plan.val.dist_single
  ELSE plan.val.dist_classified

\* computeReconstructionError over LargeCloud, worked out once for every map
\* of the environment and every inlier threshold a held request can have;
\* interval is 1 there, so the outcome of a division by zero plays no part
LargeCloudKeys ==
  [lookup : {StoredCollection.dist_classified, StoredCollection.dist_single,
             StoredLayer.dist},
   inlier_distance : {0, DefaultInlierDistance, MaxDist}]

LargeCloudPasses ==
  {[key |-> k,
    res |-> computeReconstructionError(
              DefaultRequest,
              [DefaultRequest EXCEPT !.inlier_distance = k.inlier_distance],
              LargeCloud, k.lookup, "trap")] : k \in LargeCloudKeys}

\* computeReconstructionError, read from LargeCloudPasses where it is there
ReconOver(request, member, cloud, lookup, onzero) ==
  LET k == [lookup |-> lookup, inlier_distance |-> member.inlier_distance]
  IN  IF /\ cloud = LargeCloud
         /\ request.maximum_distance = DefaultRequest.maximum_distance
         /\ ~request.ignore_truncated_points
         /\ k \in LargeCloudKeys
      THEN (CHOOSE p \in LargeCloudPasses : p.key = k).res
      ELSE computeReconstructionError(request, member, cloud, lookup, onzero)

ReconCall(request, member, gt, usevox, vox, plan, onzero) ==
  IF ReconFaultsOnNull(gt, usevox, vox, plan)
  THEN [faulted |-> TRUE]
  ELSE IF gt.val = <<>>
  THEN computeReconstructionError(request, member, <<>>, <<>>, onzero)
  ELSE ReconOver(request, member, gt.val,
                 ReconLookup(request, usevox, vox, plan), onzero)

\* the submaps visualizeReconstructionError keeps
KeptForColoring(submap) ==
  submap.label # "kFreeSpace" /\ submap.change_state = "kPersistent"

RemoveInactive(request, collection) ==
  IF request.is_single_tsdf THEN collection
  ELSE [collection EXCEPT !.submaps = SelectSeq(@, KeptForColoring)]

\* the passes evaluate() enters after the map is loaded, up to the stage it
\* stops at
PassesUpTo(request, stage, isOpen) ==
  (IF request.evaluate /\ stage >= 4 /\ isOpen
   THEN <<"computeReconstructionError">> ELSE <<>>)
  \o (IF request.export_mesh /\ stage >= 5 THEN <<"exportMesh">> ELSE <<>>)
  \o (IF request.export_labeled_pointcloud /\ stage >= 6
      THEN <<"exportLabeledPointcloud">> ELSE <<>>)
  \o (IF request.compute_coloring /\ stage >= 7
      THEN <<"visualizeReconstructionError">> ELSE <<>>)
  \o (IF request.visualize /\ stage >= 8
      THEN <<"publishVisualization">> ELSE <<>>)

\* bool MapEvaluator::evaluate(const EvaluationRequest& request)
evaluate(request, openOk) ==
  LET file == request.map_file
      \* the ground-truth cloud
      needsGt == request.evaluate \/ request.compute_coloring
      ply == LoadPLY(request.ground_truth_pointcloud_file)
      gt == IF needsGt /\ request.ground_truth_pointcloud_file # ""
            THEN (IF ply.ok THEN Ptr(ply.cloud) ELSE NullPtr)
            ELSE gt_cloud_ptr_
      \* the map
      hasMap == file # <<>>
      dot == FindLastOf(file, ".")
      throws == hasMap /\ SubstrThrows(file, dot)
      parsed == hasMap /\ ~throws
      extension == IF parsed THEN Substr(file, dot, Npos) ELSE <<>>
      isPanmap == parsed /\ extension = <<".", "panmap">>
      isVxblx == parsed /\ extension = <<".", "vxblx">>
      collection == LoadCollection(file)
      layer == LoadLayer(file)
      usevox == IF isPanmap THEN FALSE ELSE IF isVxblx THEN TRUE
                ELSE use_voxblox_
      submaps == IF isPanmap
                 THEN (IF collection.ok THEN Ptr(collection.collection)
                       ELSE NullPtr)
                 ELSE submaps_
      planning == IF isPanmap /\ collection.ok
                  THEN Ptr(collection.collection) ELSE planning_
      vox == IF isVxblx /\ layer.ok THEN Ptr(layer.layer) ELSE voxblox_
      directory == IF parsed THEN Substr(file, 0, FindLastOf(file, "/"))
                   ELSE target_directory_
      name == IF parsed THEN MapNameOf(file) ELSE target_map_name_
      \* the summary file
      path == directory \o <<"/">> \o name \o <<"_">> \o request.output_suffix
              \o <<".", "csv">>
      stream == StreamOpen(output_file_, path, openOk)
      opened == DiskOpen(output_file_, disk, path, openOk)
      recon == ReconCall(request, request_, gt, usevox, vox, planning, divzero)
      \* the stage the call stops at, 8 when it runs to its end
      loading ==
        IF ~IsValid(request) THEN 0
        ELSE IF needsGt /\ gt.null THEN 1
        ELSE IF throws THEN 2
        ELSE IF hasMap /\ (~isPanmap \/ ~collection.ok) /\ ~isVxblx THEN 2
        ELSE IF submaps.null /\ ~usevox THEN 3
        ELSE 4
      stage ==
        IF loading < 4 THEN loading
        ELSE IF request.evaluate /\ (~stream.is_open \/ recon.faulted) THEN 4
        ELSE IF request.export_mesh /\ submaps.null THEN 5
        ELSE IF request.export_labeled_pointcloud /\ submaps.null THEN 6
        ELSE IF request.compute_coloring /\ submaps.null THEN 7
        ELSE 8
      result ==
        IF stage = 2 /\ throws THEN "throw"
        ELSE IF stage = 4 /\ stream.is_open THEN "fault"
        ELSE IF stage \in 5..7 THEN "fault"
        ELSE IF stage = 8 THEN "true"
        ELSE "false"
      wrote == stage >= 4 /\ request.evaluate /\ stream.is_open
               /\ ~recon.faulted
      colours == stage = 8 /\ request.compute_coloring
  IN  /\ Alive
      /\ calls < MaxCalls
      \* whether the open succeeds is an input of the calls that open a file
      /\ ~openOk => (loading = 4 /\ request.evaluate)
      /\ calls' = calls + 1
      /\ gt_cloud_ptr_' = IF stage >= 1 THEN gt ELSE gt_cloud_ptr_
      /\ use_voxblox_' = IF stage >= 2 THEN usevox ELSE use_voxblox_
      /\ voxblox_' = IF stage >= 2 THEN vox ELSE voxblox_
      /\ planning_' = IF stage >= 2 THEN planning ELSE planning_
      /\ target_directory_' = IF stage >= 2 THEN directory ELSE target_directory_
      /\ target_map_name_' = IF stage >= 2 THEN name ELSE target_map_name_
      /\ submaps_' =
           IF colours THEN Ptr(RemoveInactive(request, submaps.val))
           ELSE IF stage >= 2 THEN submaps ELSE submaps_
      /\ kdtree_data_' = IF colours THEN Ptr(gt.val) ELSE kdtree_data_
      /\ output_file_' =
           IF wrote THEN StreamClose(stream)
           ELSE IF stage >= 4 /\ request.evaluate THEN stream
           ELSE output_file_
      /\ disk' =
           IF wrote
           THEN DiskWrite(stream,
                  DiskNewline(stream, DiskWrite(stream, opened, SingleHeader)),
                  recon.str)
           ELSE IF stage >= 4 /\ request.evaluate THEN opened
           ELSE disk
      /\ ret' = [op |-> "evaluate", result |-> result,
                 request |-> Ptr(request),
                 recon |-> IF wrote THEN Ptr(recon) ELSE NullPtr,
                 mesh |-> NullPtr,
                 ran |-> PassesUpTo(request, stage, stream.is_open),
                 open |-> IF stage >= 4 /\ request.evaluate
                          THEN OpenOutcome(output_file_, openOk)
                          ELSE "none"]
      /\ UNCHANGED <<request_, gt_voxel_grid_ptr_, process_map_srv_, passVars,
                     divzero, trackerVars>>

\* bool MapEvaluator::setupMultiMapEvaluation(); params is the request read
\* from the parameter server
setupMultiMapEvaluation(params, openOk) ==
  LET ply == LoadPLY(params.ground_truth_pointcloud_file)
      path == params.map_file \o <<"/">> \o params.output_suffix
              \o <<".", "csv">>
      stream == StreamOpen(output_file_, path, openOk)
      opened == DiskOpen(output_file_, disk, path, openOk)
      \* 0: invalid request, 1: no ground truth, 2: no output file, 3: set up
      stage == IF ~IsValid(params) THEN 0
               ELSE IF ~ply.ok THEN 1
               ELSE IF ~stream.is_open THEN 2
               ELSE 3
  IN  /\ Alive
      /\ calls < MaxCalls
      \* whether the open succeeds is an input of the calls that open a file
      /\ ~openOk => (IsValid(params) /\ ply.ok)
      /\ calls' = calls + 1
      /\ request_' = params
      /\ use_voxblox_' = IF stage >= 1 THEN FALSE ELSE use_voxblox_
      /\ gt_cloud_ptr_' = IF stage >= 1 THEN Ptr(ply.cloud) ELSE gt_cloud_ptr_
      /\ kdtree_data_' = IF stage >= 2 THEN Ptr(ply.cloud) ELSE kdtree_data_
      /\ output_file_' = IF stage >= 2 THEN stream ELSE output_file_
      /\ disk' =
           IF stage = 3
           THEN DiskWrite(stream,
                  DiskNewline(stream, DiskWrite(stream, opened, MultiHeader)),
                  Space)
           ELSE IF stage = 2 THEN opened
           ELSE disk
      /\ target_directory_' =
           IF stage = 3 THEN params.map_file ELSE target_directory_
      /\ process_map_srv_' = (process_map_srv_ \/ stage = 3)
      /\ ret' = [op |-> "setupMultiMapEvaluation",
                 result |-> IF stage = 3 THEN "true" ELSE "false",
                 request |-> Ptr(params),
                 recon |-> NullPtr, mesh |-> NullPtr, ran |-> <<>>,
                 open |-> IF stage >= 2
                          THEN OpenOutcome(output_file_, openOk)
                          ELSE "none"]
      /\ UNCHANGED <<gt_voxel_grid_ptr_, submaps_, voxblox_, planning_,
                     target_map_name_, passVars, divzero,
                     trackerVars>>

\* computeMeshError as a member function: a vertex looked up in an index
\* that was never built is a fault
RECURSIVE AnyVertex(_, _)
AnyVertex(submaps, j) ==
  /\ j <= Len(submaps)
  /\ \/ \E b \in 1..Len(submaps[j].mesh) : submaps[j].mesh[b] # <<>>
     \/ AnyVertex(submaps, j + 1)

MeshCall(request, member, collection, index, okCount) ==
  IF index.null
  THEN [faulted |-> AnyVertex(collection.submaps, 1), aborted |-> FALSE,
        str |-> MeshString(MeshInit)]
  ELSE [faulted |-> FALSE] @@
       computeMeshError(request, member, collection.submaps, index.val, okCount)

\* the export passes the service callback enters
ExportsOf(request) ==
  (IF request.export_mesh THEN <<"exportMesh">> ELSE <<>>)
  \o (IF request.export_labeled_pointcloud
      THEN <<"exportLabeledPointcloud">> ELSE <<>>)
  \o (IF request.export_coverage_pointcloud
      THEN <<"exportCoveragePointcloud">> ELSE <<>>)

\* bool MapEvaluator::evaluateMapCallback(request, response), the handler of
\* the process_map service; path is request.file_path
evaluateMapCallback(path, okCount) ==
  LET collection == LoadCollection(path)
      submaps == IF collection.ok THEN Ptr(collection.collection) ELSE NullPtr
      recon == ReconCall(request_, request_, gt_cloud_ptr_, use_voxblox_,
                         voxblox_, submaps, divzero)
      mesh == MeshCall(request_, request_, collection.collection,
                       kdtree_data_, okCount)
      throws == SubstrThrows(path, FindLastOf(path, "."))
      \* a null gt_cloud_ptr_ sends exportCoveragePointcloud to the loader,
      \* and LOG(FATAL) ends the process when that fails
      reloads == gt_cloud_ptr_.null
      ply == LoadPLY(request_.ground_truth_pointcloud_file)
      \* 0: map not loaded, 1: fault in a pass, 2: substr throws,
      \* 3: fault in an export, 4: done
      stage ==
        IF ~collection.ok THEN 0
        ELSE IF request_.evaluate /\ (recon.faulted \/ mesh.faulted) THEN 1
        ELSE IF throws THEN 2
        ELSE IF request_.export_coverage_pointcloud /\ reloads /\ ~ply.ok
        THEN 3
        ELSE 4
      wrote == stage >= 2 /\ request_.evaluate
      covers == stage = 4 /\ request_.export_coverage_pointcloud
      stream == IF wrote THEN StreamWrite(output_file_) ELSE output_file_
  IN  /\ Alive
      /\ process_map_srv_
      /\ calls < MaxCalls
      /\ calls' = calls + 1
      /\ submaps_' = submaps
      /\ planning_' = IF stage >= 1 /\ request_.evaluate THEN submaps
                      ELSE planning_
      /\ output_file_' = stream
      /\ disk' =
           IF wrote
           THEN DiskNewline(output_file_,
                  DiskWrite(output_file_, disk,
                            Concat(Concat(recon.str, Comma), mesh.str)))
           ELSE disk
      /\ target_map_name_' =
           IF stage >= 3 THEN MapNameOf(path) ELSE target_map_name_
      /\ gt_cloud_ptr_' =
           IF covers /\ reloads THEN Ptr(ply.cloud) ELSE gt_cloud_ptr_
      /\ gt_voxel_grid_ptr_' =
           IF covers /\ gt_voxel_grid_ptr_.null
           THEN (IF reloads THEN Ptr(ply.cloud) ELSE gt_cloud_ptr_)
           ELSE gt_voxel_grid_ptr_
      /\ ret' = [op |-> "evaluateMapCallback",
                 result |-> CASE stage = 0 -> "false"
                              [] stage \in {1, 3} -> "fault"
                              [] stage = 2 -> "throw"
                              [] OTHER -> "true",
                 request |-> Ptr(request_),
                 recon |-> IF wrote THEN Ptr(recon) ELSE NullPtr,
                 mesh |-> IF wrote THEN Ptr(mesh) ELSE NullPtr,
                 ran |-> (IF request_.evaluate /\ stage >= 1
                          THEN <<"computeReconstructionError">>
                               \o (IF recon.faulted THEN <<>>
                                   ELSE <<"computeMeshError">>)
                          ELSE <<>>)
                         \o (IF stage >= 3 THEN ExportsOf(request_) ELSE <<>>),
                 open |-> "none"]
      /\ UNCHANGED <<request_, kdtree_data_, voxblox_, use_voxblox_,
                     target_directory_, process_map_srv_, passVars,
                     divzero, trackerVars>>

\* ---------------------------------------------------------- the evaluator
\* a request on the stored multi-submap map and the square ground-truth cloud
BaseRequest ==
  [DefaultRequest EXCEPT !.map_file = PanmapPath,
                         !.ground_truth_pointcloud_file = "gt_square"]

\* the requests evaluate() is called with: BaseRequest, changed in its map
\* file, in its ground-truth file, in a threshold or in a toggle
EvaluateRequests ==
  {[BaseRequest EXCEPT !.map_file = m] : m \in MapPaths}
  \cup {[BaseRequest EXCEPT !.ground_truth_pointcloud_file = g] :
          g \in {"", "gt_large", "gt_missing"}}
  \cup {[BaseRequest EXCEPT !.inlier_distance = 0],
        [BaseRequest EXCEPT !.maximum_distance = 0],
        [BaseRequest EXCEPT !.export_coverage_pointcloud = TRUE],
        [BaseRequest EXCEPT !.inlier_distance = MaxDist,
                            !.ground_truth_pointcloud_file = "gt_large"],
        [BaseRequest EXCEPT !.evaluate = FALSE],
        [BaseRequest EXCEPT !.compute_coloring = TRUE],
        [BaseRequest EXCEPT !.is_single_tsdf = TRUE]}

\* the requests the parameter server holds for the service; there map_file
\* names the target directory
ServiceBase == [BaseRequest EXCEPT !.map_file = <<"d">>]

ServiceRequests ==
  {[ServiceBase EXCEPT !.ground_truth_pointcloud_file = g] :
     g \in {"gt_large", "gt_square", "gt_missing"}}
  \cup {[ServiceBase EXCEPT !.inlier_distance = 0],
        [ServiceBase EXCEPT !.evaluate = FALSE],
        [ServiceBase EXCEPT !.export_coverage_pointcloud = TRUE]}

\* the map files the service is triggered with
TriggerPaths == {PanmapPath, MissingPanmapPath, NoDotPath}

Init ==
  /\ EvaluatorInit
  /\ divzero \in {"trap", "none"}
  /\ arg = <<>>
  /\ runs = <<>>
  /\ TrackerIdle

Next ==
  \/ \E params \in ServiceRequests, openOk \in BOOLEAN :
       setupMultiMapEvaluation(params, openOk)
  \/ \E request \in EvaluateRequests, openOk \in BOOLEAN :
       evaluate(request, openOk)
  \/ \E path \in TriggerPaths, okCount \in -1..1 :
       evaluateMapCallback(path, okCount)

Spec == Init /\ [][Next]_vars

\* the single-run tool: evaluate() is the only operation called
SingleNext ==
  \E request \in EvaluateRequests, openOk \in BOOLEAN :
    evaluate(request, openOk)

SpecSingle == Init /\ [][SingleNext]_vars

\* =========================================================================
\* The colouring, export and coverage passes
\* =========================================================================
\* ---------------------------------------------------------- colour mapping
\* frac = std::min(error, maximum_distance) / maximum_distance as the exact
\* rational num/den; the error is err_num/err_den, and 1/0 stands for the
\* largest float. std::min(a, b) is b when b < a and a otherwise.
FracOf(err_num, err_den, maximum_distance) ==
  IF maximum_distance * err_den < err_num
  THEN [num |-> maximum_distance, den |-> maximum_distance]
  ELSE [num |-> err_num, den |-> err_den * maximum_distance]

\* r = std::min((frac - 0.5f) * 2.f + 1.f, 1.f) * 255.f, cut to 8 bits
RedOf(frac) ==
  IF 2 * frac.num >= frac.den THEN 255
  ELSE (2 * frac.num * 255) \div frac.den

\* g = 190.f + 130.f * frac, the value taken when frac <= 0.5f
GreenLow(frac) == (190 * frac.den + 130 * frac.num) \div frac.den

\* g = (1.f - frac) * 2.f * 255.f, the value taken otherwise
GreenHigh(frac) == ((frac.den - frac.num) * 2 * 255) \div frac.den

\* GreenOf with the first formula on both sides of the breakpoint
GreenOfLowOnly(frac) == GreenLow(frac)

GreenOf(frac) ==
  IF 2 * frac.num <= frac.den THEN GreenLow(frac) ELSE GreenHigh(frac)

\* Color(r, g, 0)
ColorFor(frac) == [r |-> RedOf(frac), g |-> GreenOf(frac), b |-> 0]

\* Color(128, 128, 128): no nearby surface
Grey == [r |-> 128, g |-> 128, b |-> 128]

\* ------------------------------------------------------- colouring passes
ColoringInit ==
  [colors |-> <<>>, fracs |-> <<>>, blocks |-> 0, checks |-> 0,
   aborted |-> FALSE]

\* one mesh vertex of the mesh-distance colouring: the distance to the
\* nearest index point; a query without a result leaves out_dist_sqr at the
\* largest float, where the search initialised it
MeshColorVertex(acc, v, points, request) ==
  LET r == knnSearch1(points, v)
      frac == IF r.num_results = 0
              THEN FracOf(1, 0, request.maximum_distance)
              ELSE FracOf(Abs(points[r.ret_index] - v), 1,
                          request.maximum_distance)
  IN  [acc EXCEPT !.colors = Append(@, ColorFor(frac)),
                  !.fracs = Append(@, frac)]

RECURSIVE MeshColorVertices(_, _, _, _, _)
MeshColorVertices(acc, vertices, i, points, request) ==
  IF i > Len(vertices) THEN acc
  ELSE MeshColorVertices(MeshColorVertex(acc, vertices[i], points, request),
                         vertices, i + 1, points, request)

\* the loop over the mesh blocks of one submap: no ros::ok() in it
RECURSIVE MeshColorBlocks(_, _, _, _, _)
MeshColorBlocks(acc, submap, b, points, request) ==
  IF b > Len(submap.mesh) THEN acc
  ELSE MeshColorBlocks(
         [MeshColorVertices(acc, submap.mesh[b], 1, points, request)
            EXCEPT !.blocks = @ + 1],
         submap, b + 1, points, request)

RECURSIVE MeshColorSubmaps(_, _, _, _, _)
MeshColorSubmaps(acc, submaps, s, points, request) ==
  IF s > Len(submaps) THEN acc
  ELSE MeshColorSubmaps(MeshColorBlocks(acc, submaps[s], 1, points, request),
                        submaps, s + 1, points, request)

\* float min_dist_sqr = 1000.f, in units of 0.01 m^2
MinDistSqrInit == 100000

Min(a, b) == IF b < a THEN b ELSE a

Max(a, b) == IF a < b THEN b ELSE a

\* the loop over the results of one voxel's query: every index point is a
\* result (the index is smaller than max_number_of_neighbors)
RECURSIVE VoxelNeighbors(_, _, _, _, _)
VoxelNeighbors(n, i, center, points, submap) ==
  IF i > Len(points) THEN n
  ELSE LET out_dist_sqr == (points[i] - center) * (points[i] - center)
           n1 == [n EXCEPT !.min_dist_sqr = Min(@, out_dist_sqr)]
           ans == submap.dist[points[i]]
           n2 == IF out_dist_sqr > submap.voxel_size * submap.voxel_size
                 THEN n1
                 ELSE IF ans.observed
                 THEN [n1 EXCEPT !.total_error = @ + Abs(ans.distance),
                                 !.max_error = Max(@, Abs(ans.distance)),
                                 !.counted_voxels = @ + 1]
                 ELSE n1
       IN  VoxelNeighbors(n2, i + 1, center, points, submap)

\* one voxel of the per-voxel colouring. With no counted neighbour the mean
\* falls back to sqrt(min_dist_sqr) and the maximum to min_dist_sqr itself,
\* a number of square metres read as metres: d*d/100 m, d*d/10 in units of
\* 0.1 m.
VoxelColor(acc, voxel, points, submap, request) ==
  IF Abs(voxel.distance) > submap.truncation_distance THEN acc
  ELSE IF points = <<>>
  THEN [acc EXCEPT !.colors = Append(@, Grey)]
  ELSE LET n == VoxelNeighbors(
                  [total_error |-> 0, max_error |-> 0, counted_voxels |-> 0,
                   min_dist_sqr |-> MinDistSqrInit],
                  1, voxel.center, points, submap)
           nearest == CHOOSE d \in 0..n.min_dist_sqr : d * d = n.min_dist_sqr
           frac ==
             IF n.counted_voxels = 0
             THEN (IF request.color_by_max_error
                   THEN FracOf(n.min_dist_sqr, 10, request.maximum_distance)
                   ELSE FracOf(nearest, 1, request.maximum_distance))
             ELSE (IF request.color_by_max_error
                   THEN FracOf(n.max_error, 1, request.maximum_distance)
                   ELSE FracOf(n.total_error, n.counted_voxels,
                               request.maximum_distance))
       IN  [acc EXCEPT !.colors = Append(@, ColorFor(frac)),
                       !.fracs = Append(@, frac)]

RECURSIVE VoxelColors(_, _, _, _, _, _)
VoxelColors(acc, voxels, i, points, submap, request) ==
  IF i > Len(voxels) THEN acc
  ELSE VoxelColors(VoxelColor(acc, voxels[i], points, submap, request),
                   voxels, i + 1, points, submap, request)

\* the loop over the voxel blocks of one submap, ros::ok() asked at each
RECURSIVE VoxelColorBlocks(_, _, _, _, _, _)
VoxelColorBlocks(acc, submap, b, points, request, okCount) ==
  IF b > Len(submap.tsdf) THEN acc
  ELSE IF ~RosOk(acc.checks, okCount) THEN [acc EXCEPT !.aborted = TRUE]
  ELSE VoxelColorBlocks(
         [VoxelColors([acc EXCEPT !.checks = @ + 1], submap.tsdf[b], 1,
                      points, submap, request)
            EXCEPT !.blocks = @ + 1],
         submap, b + 1, points, request, okCount)

RECURSIVE VoxelColorSubmaps(_, _, _, _, _, _)
VoxelColorSubmaps(acc, submaps, s, points, request, okCount) ==
  IF s > Len(submaps) \/ acc.aborted THEN acc
  ELSE VoxelColorSubmaps(
         VoxelColorBlocks(acc, submaps[s], 1, points, request, okCount),
         submaps, s + 1, points, request, okCount)

\* void MapEvaluator::visualizeReconstructionError(request): the index is
\* rebuilt from the cloud, the inactive submaps are removed, and the vertices
\* or the voxels of the others are coloured
visualizeReconstructionError(request, collection, cloud, okCount) ==
  LET kept == RemoveInactive(request, collection).submaps
      acc == IF request.color_by_mesh_distance
             THEN MeshColorSubmaps(ColoringInit, kept, 1, cloud, request)
             ELSE VoxelColorSubmaps(ColoringInit, kept, 1, cloud, request,
                                    okCount)
  IN  [colors |-> acc.colors, fracs |-> acc.fracs, blocks |-> acc.blocks,
       checks |-> acc.checks, aborted |-> acc.aborted,
       kdtree_data |-> cloud, saved |-> ~acc.aborted]

\* ------------------------------------------------------- labeled point cloud
\* label = class id * 1000 + instance id; labels above 50000 are not exported
LabelFactor == 1000

LabelLimit == 50000

\* (labels are std::uint32_t; an exported label is at most LabelLimit and a
\* remapped one at most LabelLimit * LabelFactor, below 2^32)
\* the label of one mesh vertex, or no label when the vertex is skipped
VertexLabel(submap, block, vertex) ==
  IF ~block.has_class_block THEN [skip |-> FALSE, label |-> 0]
  ELSE IF vertex.voxel_type \in {"kBinaryCount", "kMovingBinaryCount"}
  THEN (IF vertex.belonging_id = 0 THEN [skip |-> TRUE, label |-> 0]
        ELSE [skip |-> FALSE,
              label |-> submap.class_id * LabelFactor
                        + (IF submap.label = "kInstance"
                           THEN submap.instance_id ELSE 0)])
  ELSE IF vertex.voxel_type \in {"kPanopticWeight", "kFixedCount",
                                 "kVariableCount"}
  THEN [skip |-> FALSE, label |-> vertex.belonging_id]
  ELSE [skip |-> TRUE, label |-> 0]

RECURSIVE LabelVertices(_, _, _, _)
LabelVertices(cloud, submap, block, i) ==
  IF i > Len(block.vertices) THEN cloud
  ELSE LET l == VertexLabel(submap, block, block.vertices[i])
       IN  LabelVertices(
             IF l.skip \/ l.label > LabelLimit THEN cloud
             ELSE Append(cloud, [vertex |-> block.vertices[i].at,
                                 label |-> l.label]),
             submap, block, i + 1)

RECURSIVE LabelBlocks(_, _, _)
LabelBlocks(cloud, submap, b) ==
  IF b > Len(submap.mesh) THEN cloud
  ELSE LabelBlocks(LabelVertices(cloud, submap, submap.mesh[b], 1), submap,
                   b + 1)

RECURSIVE LabelSubmaps(_, _, _)
LabelSubmaps(cloud, submaps, s) ==
  IF s > Len(submaps) THEN cloud
  ELSE LabelSubmaps(
         IF submaps[s].has_class_layer THEN LabelBlocks(cloud, submaps[s], 1)
         ELSE cloud,
         submaps, s + 1)

\* the label_map read from the rows of the csv file: a row sets
\* label_map[inst] = cls unless one of the two is -1
RECURSIVE ReadLabelMap(_, _, _)
ReadLabelMap(label_map, rows, i) ==
  IF i > Len(rows) THEN label_map
  ELSE LET row == rows[i]
       IN  ReadLabelMap(
             IF row.inst # -1 /\ row.cls # -1
             THEN [k \in DOMAIN label_map \cup {row.inst} |->
                     IF k = row.inst THEN row.cls ELSE label_map[k]]
             ELSE label_map,
             rows, i + 1)

\* the new label of one point of the cloud
RemapLabel(label_map, label) ==
  IF label \in DOMAIN label_map
  THEN label_map[label] * LabelFactor + label
  ELSE label * LabelFactor

\* void MapEvaluator::exportLabeledPointcloud(request); member is request_,
\* whose is_single_tsdf decides whether the labels are remapped, and file is
\* the label map file beside the map
exportLabeledPointcloud(request, member, submaps, file) ==
  LET cloud == LabelSubmaps(<<>>, submaps, 1)
      label_map == ReadLabelMap(<<>>, file.rows, 1)
      remaps == member.is_single_tsdf /\ file.is_regular_file
  IN  [collected |-> cloud,
       remapped |-> remaps,
       cloud |-> IF remaps
                 THEN [k \in 1..Len(cloud) |->
                         [cloud[k] EXCEPT
                            !.label = RemapLabel(label_map, cloud[k].label)]]
                 ELSE cloud]

\* ----------------------------------------------------------- coverage pass
\* kCoverageGridVoxelSize = 0.05f, in units of 0.025 m
kCoverageGridVoxelSize == 2

PointAt(x) == [x |-> x, nan |-> FALSE]

NaNPoint == [x |-> 0, nan |-> TRUE]

Sign(i) == IF i > 0 THEN 1 ELSE IF i < 0 THEN 0 - 1 ELSE 0

\* get_voxel_centroid for the cell i of the grid row through the origin:
\* normalized() of the coordinates is their sign, and for the zero vector
\* either the vector itself or 0/0, by the version of the linear algebra
\* library (zeronorm)
get_voxel_centroid(voxel_coordinates, voxel_size, zeronorm) ==
  IF voxel_coordinates = 0 /\ zeronorm = "nan" THEN NaNPoint
  ELSE PointAt(voxel_coordinates * voxel_size
               + Sign(voxel_coordinates) * (voxel_size \div 2))

\* CoveragePointOccupied with the synthetic centroid in the place of the
\* stored one
CoveragePointSynthetic(grid, i, centroid_index, zeronorm) ==
  get_voxel_centroid(i, kCoverageGridVoxelSize, zeronorm)

\* the point tested and appended for an occupied cell
CoveragePointOccupied(grid, i, centroid_index, zeronorm) ==
  grid.filtered[centroid_index + 1]

\* one cell of the grid; observed is the set of the points at which
\* PlanningInterface::isObserved holds
CoverageCell(acc, i, grid, observed, zeronorm) ==
  LET centroid_index == grid.leaf[i]
      point == IF centroid_index = -1
               THEN get_voxel_centroid(i, kCoverageGridVoxelSize, zeronorm)
               ELSE CoveragePointOccupied(grid, i, centroid_index, zeronorm)
  IN  IF point \in observed
      THEN [cloud |-> Append(acc.cloud, point), cells |-> Append(acc.cells, i)]
      ELSE acc

RECURSIVE CoverageCells(_, _, _, _, _)
CoverageCells(acc, i, grid, observed, zeronorm) ==
  IF i > grid.max THEN acc
  ELSE CoverageCells(CoverageCell(acc, i, grid, observed, zeronorm), i + 1,
                     grid, observed, zeronorm)

\* void MapEvaluator::exportCoveragePointcloud(request), from the grid on:
\* the coverage cloud, and for each of its points the cell it came from
exportCoveragePointcloud(grid, observed, zeronorm) ==
  CoverageCells([cloud |-> <<>>, cells |-> <<>>], grid.min, grid, observed,
                zeronorm)

\* ------------------------------------------ the reconstruction pass alone
Answers == {Unobserved} \cup {Observed(d) : d \in {-MaxDist} \cup 0..MaxDist}

\* a cloud of n points at the positions 1..n
CloudOf(n) == [i \in 1..n |-> i]

\* a cloud of at least ProgressDivisor points, all answered alike
LargeCloudSize == ProgressDivisor + MaxPts

InlierChoices == {DefaultInlierDistance, MaxDist}

MaximumChoices == {DefaultMaximumDistance - 1, DefaultMaximumDistance}

ReconArgs ==
  {[cloud |-> CloudOf(n), lookup |-> f, maximum_distance |-> m,
    inlier_distance |-> i, member_inlier_distance |-> j] :
     n \in {k \in 0..MaxPts : TRUE}, f \in UNION {[1..k -> Answers] : k \in 0..MaxPts},
     m \in MaximumChoices, i \in InlierChoices, j \in InlierChoices}

ReconInputs ==
  {a \in ReconArgs : DOMAIN a.lookup = 1..Len(a.cloud)}
  \cup
  {[cloud |-> CloudOf(LargeCloudSize),
    lookup |-> [p \in 1..LargeCloudSize |-> ans],
    maximum_distance |-> m, inlier_distance |-> i,
    member_inlier_distance |-> j] :
     ans \in Answers, m \in MaximumChoices, i \in InlierChoices,
     j \in InlierChoices}

ReconRequest(a, ignore) ==
  [DefaultRequest EXCEPT !.maximum_distance = a.maximum_distance,
                         !.inlier_distance = a.inlier_distance,
                         !.ignore_truncated_points = ignore]

ReconMember(a) ==
  [DefaultRequest EXCEPT !.inlier_distance = a.member_inlier_distance]

ReconSpecInit ==
  /\ EvaluatorIdle
  /\ divzero \in {"trap", "none"}
  /\ arg \in ReconInputs
  /\ runs = <<>>
  /\ TrackerIdle

\* the pass runs on arg; a second run has the other ignore_truncated_points
RunRecon(ignore) ==
  /\ Len(runs) < 2
  /\ runs # <<>> => runs[1].ignore # ignore
  /\ runs' = Append(runs,
       [ignore |-> ignore,
        res |-> computeReconstructionError(ReconRequest(arg, ignore),
                  ReconMember(arg), arg.cloud, arg.lookup, divzero)])
  /\ UNCHANGED <<arg, evaluatorVars, divzero, trackerVars>>

ReconSpecNext == \E ignore \in BOOLEAN : RunRecon(ignore)

SpecRecon == ReconSpecInit /\ [][ReconSpecNext]_vars

\* ---------------------------------------------------- the mesh pass alone
Labels == {"kInstance", "kBackground", "kFreeSpace"}

ChangeStates == {"kNew", "kPersistent", "kAbsent", "kUnobserved"}

\* meshes: one block of two vertices; a block of one vertex and an empty block
MeshChoices == { << <<0, 5>> >>, << <<1>>, <<>> >> }

\* the points the index was built from
IndexChoices == { <<>>, <<0, 2>> }

SubmapChoices ==
  [label : Labels, change_state : ChangeStates, mesh : MeshChoices]

WithIds(c) ==
  [k \in 1..Len(c) |->
     [id |-> k, label |-> c[k].label, change_state |-> c[k].change_state,
      mesh |-> c[k].mesh]]

Collections ==
  {WithIds(c) : c \in UNION {[1..n -> SubmapChoices] : n \in 0..MaxSubmaps}}

MeshSpecInit ==
  /\ EvaluatorIdle
  /\ divzero = "trap"
  /\ arg \in [submaps : Collections, points : IndexChoices,
              is_single_tsdf : BOOLEAN]
  /\ runs = <<>>
  /\ TrackerIdle

\* the pass runs once on arg, shut down after okCount blocks or never (-1)
RunMesh(okCount) ==
  /\ runs = <<>>
  /\ runs' = <<[okCount |-> okCount,
               res |-> computeMeshError(
                         [DefaultRequest EXCEPT
                            !.is_single_tsdf = arg.is_single_tsdf],
                         DefaultRequest, arg.submaps, arg.points, okCount)]>>
  /\ UNCHANGED <<arg, evaluatorVars, divzero, trackerVars>>

MeshSpecNext == \E okCount \in -1..1 : RunMesh(okCount)

SpecMesh == MeshSpecInit /\ [][MeshSpecNext]_vars

\* ------------------------------------- the colouring and export passes alone
\* a coverage grid row of pcl::VoxelGrid: the cells origin..origin+n-1, each
\* empty (-1) or holding ground-truth points whose centroid lies at that
\* offset into the cell; leaf is the leaf layout and filtered the centroids
CellChoices == {-1, 0, 1}

GridOf(origin, cells) ==
  LET n == Len(cells)
      occupied == SelectSeq([j \in 1..n |-> j], LAMBDA j : cells[j] # -1)
  IN  [min |-> origin,
       max |-> origin + n - 1,
       leaf |-> [i \in origin..(origin + n - 1) |->
                   IF cells[i - origin + 1] = -1 THEN -1
                   ELSE Cardinality({j \in 1..(i - origin) : cells[j] # -1})],
       filtered |-> [k \in 1..Len(occupied) |->
                       PointAt((origin + occupied[k] - 1)
                                 * kCoverageGridVoxelSize
                               + cells[occupied[k]])]]

Grids ==
  {GridOf(origin, cells) :
     origin \in {-1, 0},
     cells \in UNION {[1..n -> CellChoices] : n \in 1..MaxCells}}

\* the point that stands for cell i
Representative(grid, i, zeronorm) ==
  IF grid.leaf[i] = -1
  THEN get_voxel_centroid(i, kCoverageGridVoxelSize, zeronorm)
  ELSE grid.filtered[grid.leaf[i] + 1]

CoverageInputs ==
  UNION {[pass : {"coverage"}, grid : {grid}, zeronorm : {zeronorm},
          observed : SUBSET {Representative(grid, i, zeronorm) :
                               i \in grid.min..grid.max}] :
           grid \in Grids, zeronorm \in {"copy", "nan"}}

\* meshes with class voxels of every kind
LabelVertex(at, voxel_type, belonging_id) ==
  [at |-> at, voxel_type |-> voxel_type, belonging_id |-> belonging_id]

BlockFixed ==
  [has_class_block |-> TRUE,
   vertices |-> [k \in 1..(MaxId + 1) |-> LabelVertex(k, "kFixedCount", k - 1)]]

BlockBinary ==
  [has_class_block |-> TRUE,
   vertices |-> <<LabelVertex(1, "kBinaryCount", 0),
                  LabelVertex(2, "kMovingBinaryCount", 1),
                  LabelVertex(3, "kUncertainty", 1),
                  LabelVertex(4, "kPanopticWeight", MaxId)>>]

BlockNoClass ==
  [has_class_block |-> FALSE,
   vertices |-> <<LabelVertex(5, "kFixedCount", 1)>>]

LabelSubmapChoices ==
  {[has_class_layer |-> TRUE, class_id |-> 1, instance_id |-> MaxId,
    label |-> "kInstance", mesh |-> <<BlockFixed>>],
   [has_class_layer |-> TRUE, class_id |-> 1, instance_id |-> MaxId,
    label |-> "kInstance", mesh |-> <<BlockBinary, BlockNoClass>>],
   [has_class_layer |-> TRUE, class_id |-> 51, instance_id |-> 0,
    label |-> "kBackground", mesh |-> <<BlockBinary>>],
   [has_class_layer |-> FALSE, class_id |-> 1, instance_id |-> 1,
    label |-> "kInstance", mesh |-> <<BlockFixed>>]}

\* the label map file beside the map: absent, or holding rows of
\* InstanceID, ClassID
LabelRows == [inst : 0..MaxId, cls : {1, MaxId}]

LabelFiles ==
  [is_regular_file : BOOLEAN,
   rows : UNION {[1..n -> LabelRows] : n \in 0..2}]

\* request.is_single_tsdf is the argument's and member_is_single_tsdf that
\* of request_: the same in service mode, and the default of request_ when
\* evaluate() is called with a request of its own
LabelInputs ==
  [pass : {"labels"},
   submaps : UNION {[1..n -> LabelSubmapChoices] : n \in 1..MaxSubmaps},
   file : LabelFiles,
   is_single_tsdf : BOOLEAN,
   member_is_single_tsdf : BOOLEAN]

\* submaps to colour: their meshes, their blocks of voxels (centre and
\* stored distance) and what their interpolator answers at a point
Voxel(center, distance) == [center |-> center, distance |-> distance]

ColoringSubmapChoices ==
  {[id |-> 0, label |-> "kInstance", change_state |-> "kPersistent",
    mesh |-> << <<0, 5>> >>,
    tsdf |-> << <<Voxel(0, 0), Voxel(3, 1)>>, <<Voxel(5, 0)>> >>,
    voxel_size |-> 1, truncation_distance |-> 2,
    dist |-> [q \in 0..6 |-> Observed(1)]],
   [id |-> 0, label |-> "kInstance", change_state |-> "kPersistent",
    mesh |-> << <<1>>, <<>>, <<2, 3>> >>,
    tsdf |-> << <<Voxel(1, 0)>>, <<Voxel(2, 9)>>, <<Voxel(4, 0)>> >>,
    voxel_size |-> 1, truncation_distance |-> 2,
    dist |-> [q \in 0..6 |-> IF q = 2 THEN Observed(0 - MaxDist)
                             ELSE Unobserved]],
   [id |-> 0, label |-> "kFreeSpace", change_state |-> "kPersistent",
    mesh |-> << <<4>> >>,
    tsdf |-> << <<Voxel(4, 0)>> >>,
    voxel_size |-> 1, truncation_distance |-> 2,
    dist |-> [q \in 0..6 |-> Observed(0)]],
   [id |-> 0, label |-> "kBackground", change_state |-> "kNew",
    mesh |-> << <<6>>, <<0>> >>,
    tsdf |-> << <<Voxel(6, 1)>>, <<Voxel(0, 1)>> >>,
    voxel_size |-> 1, truncation_distance |-> 2,
    dist |-> [q \in 0..6 |-> Observed(q)]]}

NumberedFrom(c) == [k \in 1..Len(c) |-> [c[k] EXCEPT !.id = k]]

ColoringCollections ==
  {NumberedFrom(c) :
     c \in UNION {[1..n -> ColoringSubmapChoices] : n \in 0..MaxSubmaps}}

ColoringClouds == {<<>>, <<0, 2>>, <<6>>}

ColoringInputs ==
  [pass : {"coloring"},
   submaps : ColoringCollections,
   points : ColoringClouds,
   color_by_mesh_distance : BOOLEAN,
   color_by_max_error : BOOLEAN,
   is_single_tsdf : BOOLEAN,
   maximum_distance : {DefaultMaximumDistance, 2 * MaxDist}]

\* errors handed to the colour mapping, three at a time in ascending order
MapperErrors ==
  {e \in [1..3 -> 0..(2 * MaxDist + 1)] : e[1] <= e[2] /\ e[2] <= e[3]}

MapperInputs ==
  [pass : {"mapper"}, errors : MapperErrors,
   maximum_distance : 1..(2 * MaxDist)]

\* the reconstruction and the mesh pass with a shutdown under way
InterruptedInputs ==
  [pass : {"recon"}, cloud : {CloudOf(n) : n \in 0..MaxPts}]
  \cup [pass : {"mesh"}, submaps : ColoringCollections,
        points : ColoringClouds]

PassRequest(a) ==
  [DefaultRequest EXCEPT
     !.color_by_mesh_distance = a.color_by_mesh_distance,
     !.color_by_max_error = a.color_by_max_error,
     !.is_single_tsdf = a.is_single_tsdf,
     !.maximum_distance = a.maximum_distance]

PassesSpecInit ==
  /\ EvaluatorIdle
  /\ divzero \in {"trap", "none"}
  /\ arg \in CoverageInputs \cup LabelInputs \cup ColoringInputs
             \cup MapperInputs \cup InterruptedInputs
  /\ runs = <<>>
  /\ TrackerIdle

RunCoverage ==
  /\ arg.pass = "coverage"
  /\ runs = <<>>
  /\ runs' = <<[okCount |-> -1, units |-> arg.grid.max - arg.grid.min + 1,
               res |-> exportCoveragePointcloud(arg.grid, arg.observed,
                                                arg.zeronorm)]>>
  /\ UNCHANGED <<arg, evaluatorVars, divzero, trackerVars>>

RunLabels ==
  /\ arg.pass = "labels"
  /\ runs = <<>>
  /\ runs' = <<[okCount |-> -1, units |-> Len(arg.submaps),
               res |-> exportLabeledPointcloud(
                         [DefaultRequest EXCEPT
                            !.is_single_tsdf = arg.is_single_tsdf],
                         [DefaultRequest EXCEPT
                            !.is_single_tsdf = arg.member_is_single_tsdf],
                         arg.submaps, arg.file)]>>
  /\ UNCHANGED <<arg, evaluatorVars, divzero, trackerVars>>

\* the three errors through the two steps every colouring takes
RunMapper ==
  /\ arg.pass = "mapper"
  /\ runs = <<>>
  /\ LET fracs == [k \in 1..3 |->
                     FracOf(arg.errors[k], 1, arg.maximum_distance)]
     IN  runs' = <<[okCount |-> -1, units |-> 3,
                    res |-> [fracs |-> fracs,
                             colors |-> [k \in 1..3 |-> ColorFor(fracs[k])]]]>>
  /\ UNCHANGED <<arg, evaluatorVars, divzero, trackerVars>>

\* okCount: the shutdown signal is raised once okCount units of work (points,
\* blocks) are done, never when okCount is -1; units is the number of units
\* the pass went through
RunColoring(okCount) ==
  /\ arg.pass = "coloring"
  /\ runs = <<>>
  /\ LET res == visualizeReconstructionError(
                  PassRequest(arg), [submaps |-> arg.submaps], arg.points,
                  okCount)
     IN  runs' = <<[okCount |-> okCount, units |-> res.blocks, res |-> res]>>
  /\ UNCHANGED <<arg, evaluatorVars, divzero, trackerVars>>

RunInterrupted(okCount) ==
  /\ arg.pass \in {"recon", "mesh"}
  /\ runs = <<>>
  /\ LET res ==
           IF arg.pass = "recon"
           THEN computeReconstructionError(
                  DefaultRequest, DefaultRequest, arg.cloud,
                  [p \in 1..Len(arg.cloud) |-> Observed(0)], divzero)
           ELSE computeMeshError(DefaultRequest, DefaultRequest, arg.submaps,
                                 arg.points, okCount)
     IN  runs' = <<[okCount |-> okCount,
                    units |-> IF arg.pass = "recon" THEN res.total_points
                              ELSE res.checks,
                    res |-> res]>>
  /\ UNCHANGED <<arg, evaluatorVars, divzero, trackerVars>>

PassesSpecNext ==
  \/ RunCoverage
  \/ RunLabels
  \/ RunMapper
  \/ \E okCount \in -1..1 : RunColoring(okCount)
  \/ \E okCount \in -1..1 : RunInterrupted(okCount)

SpecPasses == PassesSpecInit /\ [][PassesSpecNext]_vars

\* =========================================================================
\* The single-TSDF tracker
\* =========================================================================
\* Submap* SubmapCollection::createSubmap(config): a submap of the new id at
\* the end of the collection, labelled kUnknown and active as its
\* constructor leaves it
createSubmap(collection, id) ==
  [collection EXCEPT
     !.submaps = Append(@, [id |-> id, label |-> "kUnknown",
                            is_active |-> TRUE])]

\* Submap::setLabel on the k-th submap of the collection
setLabel(collection, k, label) ==
  [collection EXCEPT !.submaps[k].label = label]

\* Submap::setIsActive on the k-th submap of the collection
setIsActive(collection, k, is_active) ==
  [collection EXCEPT !.submaps[k].is_active = is_active]

setActiveFreeSpaceSubmapID(collection, id) ==
  [collection EXCEPT !.active_freespace_submap_id = id]

\* the collection and map_id_ as setup() leaves them; id is the id a newly
\* created submap gets. The comparison of the two configs only logs.
SetupMap(submaps, id) ==
  LET loaded == Len(submaps.submaps) > 0
      map_id == IF loaded THEN submaps.submaps[1].id ELSE id
      after == IF loaded THEN setIsActive(submaps, 1, TRUE)
               ELSE setLabel(createSubmap(submaps, id),
                             Len(submaps.submaps) + 1, "kBackground")
  IN  [submaps |-> setActiveFreeSpaceSubmapID(after, map_id),
       map_id_ |-> map_id]

\* setup without its last statement
setupLeavesFlag(submaps, id) ==
  [submaps |-> SetupMap(submaps, id).submaps,
   map_id_ |-> SetupMap(submaps, id).map_id_,
   is_setup_ |-> FALSE]

\* void SingleTSDFTracker::setup(SubmapCollection* submaps)
setup(submaps, id) ==
  [submaps |-> SetupMap(submaps, id).submaps,
   map_id_ |-> SetupMap(submaps, id).map_id_,
   is_setup_ |-> TRUE]

\* the latest call failed a CHECK, which ends the process
TrackerAborted == processed # <<>> /\ processed[Len(processed)].aborted

\* void SingleTSDFTracker::processInput(submaps, input) on the collection
\* tracked; input is "null", "invalid" or "valid", and a call is recorded
\* with whether it was aborted and whether it ran setup()
processInput(input, id) ==
  /\ Len(processed) < MaxCalls
  /\ ~TrackerAborted
  /\ IF input # "valid"
     THEN /\ processed' = Append(processed, [aborted |-> TRUE,
                                             setup |-> FALSE])
          /\ UNCHANGED <<is_setup_, map_id_, tracked>>
     ELSE IF ~is_setup_
     THEN LET s == setup(tracked, id)
          IN  /\ tracked' = s.submaps
              /\ map_id_' = s.map_id_
              /\ is_setup_' = s.is_setup_
              /\ processed' = Append(processed, [aborted |-> FALSE,
                                                 setup |-> TRUE])
     ELSE /\ processed' = Append(processed, [aborted |-> FALSE,
                                             setup |-> FALSE])
          /\ UNCHANGED <<is_setup_, map_id_, tracked>>
  /\ UNCHANGED <<evaluatorVars, passVars, divzero>>

\* the collections a tracker is started on: empty, or loaded with submaps of
\* distinct ids, any of which may be the free-space submap
TrackedCollections ==
  LET TrackedSubmaps ==
        [id : 0..MaxId, label : {"kInstance", "kBackground", "kFreeSpace"},
         is_active : BOOLEAN]
  IN  {c \in [submaps : UNION {[1..n -> TrackedSubmaps] :
                                 n \in 0..MaxSubmaps},
              active_freespace_submap_id : -1..MaxId] :
         /\ \A i, j \in 1..Len(c.submaps) :
              i # j => c.submaps[i].id # c.submaps[j].id
         /\ c.active_freespace_submap_id
              \in {-1} \cup {c.submaps[i].id : i \in 1..Len(c.submaps)}}

\* the tracker as its constructor leaves it; map_id_ is not read before
\* setup() has written it
TrackerInit ==
  /\ is_setup_ = FALSE
  /\ map_id_ = -1
  /\ processed = <<>>

TrackerSpecInit ==
  /\ EvaluatorIdle
  /\ divzero = "trap"
  /\ arg = <<>>
  /\ runs = <<>>
  /\ TrackerInit
  /\ tracked \in TrackedCollections

TrackerSpecNext ==
  \E input \in {"null", "invalid", "valid"}, id \in 0..MaxId :
    processInput(input, id)

SpecTracker == TrackerSpecInit /\ [][TrackerSpecNext]_vars

\* =========================================================================
\* Claims on the reconstruction pass (SpecRecon)
\* =========================================================================
Completed == {k \in 1..Len(runs) : ~runs[k].res.faulted}

PointIds == 1..Len(arg.cloud)

AnswerAt(i) == arg.lookup[arg.cloud[i]]

UnknownIds == {i \in PointIds : ~AnswerAt(i).observed}

TruncatedIds ==
  {i \in PointIds : AnswerAt(i).observed
                    /\ Abs(AnswerAt(i).distance) > arg.maximum_distance}

\* C1: in every pass that returns, total_points is the number of ground-truth
\* points, unknown_points is the number of points the distance query reports
\* unobserved, and inliers and truncated_points are each at most
\* total_points - unknown_points.
C1_Counters ==
  \A k \in Completed :
    LET r == runs[k].res
    IN  /\ r.total_points = Len(arg.cloud)
        /\ r.unknown_points = Cardinality(UnknownIds)
        /\ r.inliers <= r.total_points - r.unknown_points
        /\ r.truncated_points <= r.total_points - r.unknown_points

C1_Witness ==
  \E k \in Completed :
    /\ runs[k].res.total_points = MaxPts
    /\ runs[k].res.unknown_points = 1
    /\ runs[k].res.inliers = 1
    /\ runs[k].res.truncated_points = 1

\* the samples the truncation policy retains, in the order of the points
RECURSIVE PolicySamples(_, _)
PolicySamples(i, ignore) ==
  IF i > Len(arg.cloud) THEN <<>>
  ELSE (IF i \in UnknownIds THEN <<>>
        ELSE IF i \in TruncatedIds
             THEN (IF ignore THEN <<>> ELSE <<arg.maximum_distance>>)
             ELSE <<Abs(AnswerAt(i).distance)>>)
       \o PolicySamples(i + 1, ignore)

\* C2: every observed point whose raw |distance| exceeds maximum_distance is
\* counted in truncated_points and, unless ignore_truncated_points is set,
\* contributes the sample maximum_distance; no retained sample exceeds
\* maximum_distance.
C2_Truncation ==
  \A k \in Completed :
    LET r == runs[k].res
    IN  /\ r.truncated_points = Cardinality(TruncatedIds)
        /\ r.abserror = PolicySamples(1, runs[k].ignore)
        /\ \A j \in 1..Len(r.abserror) : r.abserror[j] <= arg.maximum_distance

C2_Witness ==
  \E k \in Completed :
    /\ ~runs[k].ignore
    /\ runs[k].res.truncated_points = 2
    /\ Len(runs[k].res.abserror) = MaxPts
    /\ \E i \in TruncatedIds : Abs(AnswerAt(i).distance) = MaxDist

\* C4: two passes over the same cloud and map that differ only in
\* ignore_truncated_points report the same four counters, and the pass that
\* ignores retains truncated_points fewer samples than the other.
C4_IgnoreTruncated ==
  \A k \in Completed, l \in Completed :
    (runs[k].ignore /\ ~runs[l].ignore) =>
      LET t == runs[k].res
          f == runs[l].res
      IN  /\ t.total_points = f.total_points
          /\ t.unknown_points = f.unknown_points
          /\ t.truncated_points = f.truncated_points
          /\ t.inliers = f.inliers
          /\ Len(t.abserror) = Len(f.abserror) - f.truncated_points

C4_Witness ==
  \E k \in Completed, l \in Completed :
    /\ runs[k].ignore /\ ~runs[l].ignore
    /\ runs[l].res.truncated_points = 2
    /\ Len(runs[k].res.abserror) = 1

\* C5: mean and RMSE are 0 for an empty sample set; the reported stddev is 0
\* whenever the sample set S has at most 2 elements and is
\* sqrt(sum((x-mean)^2)/(|S|-1)) when it has more.
C5_SmallSampleStats ==
  \A k \in Completed :
    LET r == runs[k].res
        n == Len(r.abserror)
        stddev == r.str[2][1]
    IN  /\ n = 0 => IsZero(r.str[1][1]) /\ IsZero(r.str[3][1])
        /\ n <= 2 => IsZero(stddev)
        /\ n > 2 =>
              /\ stddev.root
              /\ stddev.num * n * (n - 1) =
                   (n * SumSqSeq(r.abserror)
                      - SumSeq(r.abserror) * SumSeq(r.abserror)) * stddev.den

\* C6: the pass returns its summary for a cloud of any size, clouds of 1 to
\* ProgressDivisor - 1 points included: the progress bookkeeping never faults,
\* and every point is counted.
C6_PassCompletes ==
  \A k \in 1..Len(runs) :
    /\ ~runs[k].res.faulted
    /\ runs[k].res.total_points = Len(arg.cloud)

\* =========================================================================
\* Claims on the mesh pass (SpecMesh)
\* =========================================================================
Finished == {k \in 1..Len(runs) : ~runs[k].res.aborted}

RECURSIVE CountVertices(_, _)
CountVertices(mesh, b) ==
  IF b > Len(mesh) THEN 0 ELSE Len(mesh[b]) + CountVertices(mesh, b + 1)

\* the exclusion rule as the specification words it
Excluded(submap) ==
  submap.label = "kFreeSpace" \/ submap.change_state \in {"kAbsent", "kUnobserved"}

Elems(seq) == {seq[j] : j \in 1..Len(seq)}

\* C8: in a pass that runs to completion, the vertices of a submap that has
\* vertices are looked up iff the map is a single-field map or the submap is
\* neither free-space nor absent nor unobserved (new and persistent submaps
\* are both in); over an index that holds a point, those are the submaps that
\* own error samples.
C8_Exclusion ==
  \A k \in Finished :
    \A j \in 1..Len(arg.submaps) :
      LET submap == arg.submaps[j]
          included == arg.is_single_tsdf \/ ~Excluded(submap)
      IN  CountVertices(submap.mesh, 1) > 0 =>
            /\ submap.id \in Elems(runs[k].res.queried) <=> included
            /\ arg.points # <<>> =>
                 (submap.id \in Elems(runs[k].res.owners) <=> included)

C8_Witness ==
  \E k \in Finished :
    /\ arg.points # <<>>
    /\ ~arg.is_single_tsdf
    /\ Len(arg.submaps) = 2
    /\ arg.submaps[1].change_state = "kNew"
    /\ arg.submaps[1].label = "kInstance"
    /\ arg.submaps[2].change_state = "kAbsent"
    /\ Elems(runs[k].res.owners) = {1}

RECURSIVE CountIncluded(_)
CountIncluded(j) ==
  IF j > Len(arg.submaps) THEN 0
  ELSE (IF arg.is_single_tsdf \/ ~Excluded(arg.submaps[j])
        THEN CountVertices(arg.submaps[j].mesh, 1) ELSE 0)
       + CountIncluded(j + 1)

\* C9: in a pass that runs to completion, inliers + outliers is the number of
\* error samples, which is the number of vertices of the non-excluded submaps
\* when the index holds a point and 0 when it holds none.
C9_SampleCount ==
  \A k \in Finished :
    LET r == runs[k].res
    IN  /\ r.inliers + r.outliers = Len(r.errors)
        /\ Len(r.errors) = IF arg.points = <<>> THEN 0 ELSE CountIncluded(1)

C9_Witness ==
  \E k \in Finished :
    /\ runs[k].res.inliers > 0
    /\ runs[k].res.outliers > 0
    /\ \E j \in 1..Len(arg.submaps) :
         ~arg.is_single_tsdf /\ Excluded(arg.submaps[j])

C9_WitnessEmptyIndex ==
  \E k \in Finished :
    /\ arg.points = <<>>
    /\ Len(runs[k].res.queried) > 0
    /\ runs[k].res.errors = <<>>

\* =========================================================================
\* Claims on the evaluator (Spec)
\* =========================================================================
\* the cloud the latest call's reconstruction pass went over, and the answers
\* of the map it queried
LatestCloud == gt_cloud_ptr_.val

LatestLookup ==
  ReconLookup(ret.request.val, use_voxblox_, voxblox_, planning_)

InlierIds(threshold) ==
  {i \in 1..Len(LatestCloud) :
     LET ans == LatestLookup[LatestCloud[i]]
     IN  ans.observed /\ Abs(ans.distance) <= threshold}

\* C3: the inliers a call reports are counted against the inlier_distance of
\* the request the call was made with (the argument of evaluate(), the held
\* request of the service): the reconstruction pass counts the observed
\* points with raw |distance| <= that inlier_distance, and the mesh pass the
\* errors <= that inlier_distance.
C3_InlierThreshold ==
  /\ (ret.op \in {"evaluate", "evaluateMapCallback"} /\ ~ret.recon.null) =>
       ret.recon.val.inliers =
         Cardinality(InlierIds(ret.request.val.inlier_distance))
  /\ (~ret.mesh.null /\ ~ret.mesh.val.aborted) =>
       ret.mesh.val.inliers =
         Cardinality({j \in 1..Len(ret.mesh.val.errors) :
                        ret.mesh.val.errors[j]
                          <= ret.request.val.inlier_distance})

\* the lines of a summary file that hold a row: those after the header with
\* a comma in them
RowLines(file) == {l \in 2..Len(file) : Len(file[l]) > 1}

\* C7: in every summary file, every row has as many comma-separated fields as
\* the header of that file, in the file evaluate() writes and in the file
\* evaluateMapCallback appends to, a row written after the mesh pass was
\* shut down included.
C7_RowWidth ==
  \A path \in DOMAIN disk :
    \A l \in RowLines(disk[path]) : Len(disk[path][l]) = Len(disk[path][1])

\* a step of evaluateMapCallback on a service that was set up, its summary
\* stream open and free of errors
ServiceStep ==
  /\ calls' = calls + 1
  /\ ret'.op = "evaluateMapCallback"
  /\ Writable(output_file_)
  /\ disk[output_file_.path][1] = MultiHeader

\* C10: in service mode the header is the first line of the summary file and
\* is written once; a trigger whose map loads returns success and, with
\* evaluate enabled, appends exactly one row; a trigger whose map does not
\* load returns failure and appends nothing.
C10_ServiceRows ==
  [][ServiceStep =>
       LET file == disk[output_file_.path]
           after == disk'[output_file_.path]
       IN  /\ after[1] = MultiHeader
           /\ \A l \in 2..Len(after) : after[l] # MultiHeader
           /\ IF ~submaps_'.null
              THEN /\ ret'.result = "true"
                   /\ request_.evaluate => Len(after) = Len(file) + 1
                   /\ ~request_.evaluate => after = file
              ELSE /\ ret'.result = "false"
                   /\ after = file]_vars

\* =========================================================================
\* Claims on the single-run tool (SpecSingle)
\* =========================================================================
\* a step of evaluate() called with an invalid request
InvalidEvaluateStep ==
  /\ calls' = calls + 1
  /\ ret'.op = "evaluate"
  /\ \/ ret'.request.val.maximum_distance <= 0
     \/ ret'.request.val.inlier_distance <= 0

\* C11: evaluate() called with a request whose maximum_distance or
\* inlier_distance is not positive returns failure, enters no pass, opens no
\* file, and leaves the ground-truth cloud, the spatial index, the map, the
\* output stream, the summary files and the target names as they were.
C11_InvalidRequest ==
  [][InvalidEvaluateStep =>
       /\ ret'.result = "false"
       /\ ret'.ran = <<>>
       /\ ret'.open = "none"
       /\ UNCHANGED <<gt_cloud_ptr_, kdtree_data_, submaps_, voxblox_,
                      use_voxblox_, planning_, output_file_, disk,
                      target_directory_, target_map_name_>>]_vars

\* an invalid request refused by an evaluator that holds a cloud, a map and a
\* summary file from an earlier call
C11_Witness ==
  /\ ret.op = "evaluate"
  /\ ~IsValid(ret.request.val)
  /\ ret.result = "false"
  /\ ~gt_cloud_ptr_.null
  /\ ~submaps_.null
  /\ DOMAIN disk # {}

\* =========================================================================
\* Further claims on the evaluator (Spec)
\* =========================================================================
\* the map files of the environment that hold no map evaluate() can load
UnloadablePaths == {MissingPanmapPath, MissingVxblxPath, NoDotPath, TxtPath}

\* C12: evaluate() called with a map_file that cannot be loaded (a missing
\* .panmap or .vxblx file, an extension that is neither, no '.' at all)
\* returns failure: it neither throws nor faults, and it enters no
\* evaluation, export or colouring pass.
C12_MapLoadFailure ==
  (ret.op = "evaluate" /\ ret.request.val.map_file \in UnloadablePaths) =>
    /\ ret.result = "false"
    /\ ret.ran = <<>>

\* a call whose open() of the result file did not open it
OpenFailedStep ==
  /\ calls' = calls + 1
  /\ ret'.open = "failed"

\* C13: a call whose result file could not be opened returns failure and
\* enters no pass, and if it is setupMultiMapEvaluation it does not advertise
\* the evaluation service.
C13_OpenFailure ==
  [][OpenFailedStep =>
       /\ ret'.result = "false"
       /\ ret'.ran = <<>>
       /\ process_map_srv_' = process_map_srv_]_vars

\* C14: a trigger whose mesh pass was stopped by the shutdown check is not
\* reported as a normally completed success.
C14_AbortFlagged ==
  (ret.op = "evaluateMapCallback" /\ ~ret.mesh.null /\ ret.mesh.val.aborted) =>
    ret.result # "true"

\* the latest call ran a pass that queried the spatial index
QueriedIndex ==
  \/ ~ret.mesh.null /\ ret.mesh.val.queried # <<>>
  \/ "visualizeReconstructionError" \in Elems(ret.ran)

\* C16: after any sequence of calls, a pass that queried the spatial index
\* queried one that exists and holds exactly the points of the ground-truth
\* cloud loaded at that time.
C16_IndexCurrent ==
  QueriedIndex =>
    /\ ~kdtree_data_.null
    /\ ~gt_cloud_ptr_.null
    /\ kdtree_data_.val = gt_cloud_ptr_.val

\* C17: in every call of evaluate() or evaluateMapCallback that returns
\* success, each artifact is written iff its own toggle is set: the merged
\* mesh iff export_mesh, the labeled point cloud iff
\* export_labeled_pointcloud, the coverage point cloud iff
\* export_coverage_pointcloud, the coloured map iff compute_coloring.
C17_ExportToggles ==
  (ret.op \in {"evaluate", "evaluateMapCallback"} /\ ret.result = "true") =>
    LET request == ret.request.val
        ran == Elems(ret.ran)
    IN  /\ "exportMesh" \in ran <=> request.export_mesh
        /\ "exportLabeledPointcloud" \in ran <=> request.export_labeled_pointcloud
        /\ "exportCoveragePointcloud" \in ran
             <=> request.export_coverage_pointcloud
        /\ "visualizeReconstructionError" \in ran <=> request.compute_coloring

\* =========================================================================
\* Claims on the colouring and export passes (SpecPasses)
\* =========================================================================
\* C15: every long-running pass (reconstruction error per point, mesh error
\* per block, either colouring per block) asks the shutdown check once per
\* unit of work: when the signal is raised after okCount units, the pass goes
\* through at most one unit more.
C15_ShutdownStops ==
  \A k \in 1..Len(runs) :
    (arg.pass \in {"recon", "mesh", "coloring"} /\ runs[k].okCount >= 0) =>
      runs[k].units <= runs[k].okCount + 1

OccupiedCells == {i \in arg.grid.min..arg.grid.max : arg.grid.leaf[i] # -1}

\* C18: in the coverage pass, every cell of the grid contributes at most one
\* point, and it contributes its representative point (the stored centroid
\* of an occupied cell, the synthetic centroid of an empty one) iff
\* isObserved holds there; with one occupied cell that is observed and no
\* other cell observed, the coverage cloud is that cell's stored centroid
\* alone.
C18_Coverage ==
  arg.pass = "coverage" =>
    \A k \in 1..Len(runs) :
      LET res == runs[k].res
          n == Len(res.cells)
      IN  /\ Len(res.cloud) = n
          /\ \A a, b \in 1..n : a < b => res.cells[a] < res.cells[b]
          /\ \A i \in arg.grid.min..arg.grid.max :
               i \in Elems(res.cells)
                 <=> Representative(arg.grid, i, arg.zeronorm) \in arg.observed
          /\ \A a \in 1..n :
               res.cloud[a]
                 = Representative(arg.grid, res.cells[a], arg.zeronorm)
          /\ (Cardinality(OccupiedCells) = 1
                /\ arg.observed = {arg.grid.filtered[1]}) =>
               res.cloud = <<arg.grid.filtered[1]>>

\* a row of MaxCells cells, one of them occupied and observed, no other
\* observed
C18_Witness ==
  /\ arg.pass = "coverage"
  /\ arg.grid.max - arg.grid.min + 1 = MaxCells
  /\ Cardinality(OccupiedCells) = 1
  /\ arg.observed = {arg.grid.filtered[1]}
  /\ \E k \in 1..Len(runs) : runs[k].res.cloud = <<arg.grid.filtered[1]>>

\* the class id the label map file gives an instance id: that of its last
\* row for the id
RowsFor(rows, label) == {i \in 1..Len(rows) : rows[i].inst = label}

RemappedLabel(rows, label) ==
  IF RowsFor(rows, label) = {} THEN label * 1000
  ELSE LET last == CHOOSE i \in RowsFor(rows, label) :
                     \A j \in RowsFor(rows, label) : j <= i
       IN  rows[last].cls * 1000 + label

\* C19: exporting the labeled point cloud of a single-field map with a label
\* map file present, every exported point is remapped once: to
\* classID*1000 + instanceID when its label is an instance id of the file,
\* and to its label times 1000 otherwise.
C19_LabelRemap ==
  (arg.pass = "labels" /\ arg.is_single_tsdf /\ arg.file.is_regular_file) =>
    \A k \in 1..Len(runs) :
      LET res == runs[k].res
      IN  /\ Len(res.cloud) = Len(res.collected)
          /\ \A a \in 1..Len(res.cloud) :
               res.cloud[a].label
                 = RemappedLabel(arg.file.rows, res.collected[a].label)

\* frac lies in [0, 1]
InUnit(frac) == frac.den > 0 /\ 0 <= frac.num /\ frac.num <= frac.den

\* frac f is at most frac g
FracLeq(f, g) == f.num * g.den <= g.num * f.den

Half == [num |-> 1, den |-> 2]

\* no jump between two colours: a channel changes by at most 2 * 255 times
\* the change of frac, and 1 for the cut to 8 bits
NoJump(x, y, f, g) ==
  Abs(x - y) * f.den * g.den
    <= 2 * 255 * Abs(g.num * f.den - f.num * g.den) + f.den * g.den

\* three values in ascending or in descending order
Monotonic(x, y, z) == (x <= y /\ y <= z) \/ (x >= y /\ y >= z)

MappedRuns == {k \in 1..Len(runs) : arg.pass = "mapper"}

ColoredRuns == {k \in 1..Len(runs) : arg.pass \in {"mapper", "coloring"}}

\* every frac a colour was computed from lies in [0, 1]; the mapping has no
\* jump; colorFor(0) has red 0 and blue 0 and colorFor(1) is (255, 0, 0)
ColorRangeAndEnds ==
  /\ \A k \in ColoredRuns :
       \A j \in 1..Len(runs[k].res.fracs) : InUnit(runs[k].res.fracs[j])
  /\ \A k \in MappedRuns :
       LET f == runs[k].res.fracs
           c == runs[k].res.colors
       IN  /\ \A i, j \in 1..3 :
                /\ NoJump(c[i].r, c[j].r, f[i], f[j])
                /\ NoJump(c[i].g, c[j].g, f[i], f[j])
                /\ NoJump(c[i].b, c[j].b, f[i], f[j])
           /\ \A j \in 1..3 :
                /\ f[j].num = 0 => (c[j].r = 0 /\ c[j].b = 0 /\ c[j].g > 0)
                /\ f[j].num = f[j].den => c[j] = [r |-> 255, g |-> 0, b |-> 0]

UnansweredRuns ==
  {k \in 1..Len(runs) : arg.pass = "coloring" /\ arg.points = <<>>}

\* C21: in the per-voxel and in the per-vertex colouring, an element whose
\* index query returns zero results is coloured grey (128, 128, 128), never
\* from a distance the query did not return; only an element whose query
\* returned a distance gets a colour of the gradient.
C21_GreyWithoutResult ==
  /\ \A k \in UnansweredRuns :
       \A j \in 1..Len(runs[k].res.colors) : runs[k].res.colors[j] = Grey
  /\ \A k \in 1..Len(runs) :
       (arg.pass = "coloring" /\ arg.points # <<>>) =>
         \A j \in 1..Len(runs[k].res.colors) : runs[k].res.colors[j] # Grey

\* the coverage points that came from empty cells, as positions in the cloud
SyntheticPoints(k) ==
  {a \in 1..Len(runs[k].res.cells) : arg.grid.leaf[runs[k].res.cells[a]] = -1}

\* point p lies in the cell i: i * size <= p < (i + 1) * size
InCell(p, i) ==
  /\ ~p.nan
  /\ i * kCoverageGridVoxelSize <= p.x
  /\ p.x < (i + 1) * kCoverageGridVoxelSize

\* C22: the synthetic point get_voxel_centroid computes for an empty cell,
\* cells of negative index and the cell 0 included, lies inside that cell.
C22_SyntheticInCell ==
  \A k \in 1..Len(runs) :
    arg.pass = "coverage" =>
      \A a \in SyntheticPoints(k) :
        InCell(runs[k].res.cloud[a], runs[k].res.cells[a])

\* =========================================================================
\* Claims on the single-TSDF tracker (SpecTracker)
\* =========================================================================
\* a call of processInput that returned
ReturnedStep ==
  /\ Len(processed') = Len(processed) + 1
  /\ ~processed'[Len(processed')].aborted

\* C23: over the processInput calls on one collection, setup() runs in the
\* first call and in no other; it creates a submap, labelled background, iff
\* the collection was empty at that call, and adopts the first submap
\* otherwise; after the first call the tracker adds no submap, map_id_ does
\* not change, and the collection's active free-space submap id is map_id_.
C23_SetupOnce ==
  [][ReturnedStep =>
       LET first == processed = <<>>
           before == tracked.submaps
           after == tracked'.submaps
       IN  /\ processed'[Len(processed')].setup <=> first
           /\ (first /\ before = <<>>) =>
                /\ Len(after) = 1
                /\ after[1].label = "kBackground"
                /\ map_id_' = after[1].id
           /\ (first /\ before # <<>>) =>
                /\ Len(after) = Len(before)
                /\ map_id_' = before[1].id
                /\ \A k \in 1..Len(after) : after[k].id = before[k].id
           /\ ~first => (tracked' = tracked /\ map_id_' = map_id_)
           /\ tracked'.active_freespace_submap_id = map_id_']_vars

\* three calls on a collection that was empty: one submap, created by the
\* first
C23_Witness ==
  /\ Len(processed) >= 3
  /\ processed[1].setup
  /\ \A k \in 1..Len(processed) : ~processed[k].aborted
  /\ Len(tracked.submaps) = 1
  /\ tracked.submaps[1].label = "kBackground"
  /\ tracked.active_freespace_submap_id = map_id_

\* after an adopted first submap: the submaps the collection was loaded with
C23_WitnessAdopted ==
  /\ Len(processed) >= 2
  /\ ~processed[Len(processed)].aborted
  /\ Len(tracked.submaps) = MaxSubmaps
  /\ tracked.submaps[1].id = map_id_

====
